---------------------------- MODULE Spec2Model ----------------------------
(***************************************************************************)
(* MoodNest backend (src/backend/server.py): the subscription activation   *)
(* handlers (status poll and Stripe webhook) as interleaved request        *)
(* handlers over the document store, and the achievement / streak          *)
(* computation of get_achievements over the stored mood entries and        *)
(* worries.                                                                *)
(***************************************************************************)
EXTENDS Integers, Sequences, FiniteSets, Bags, TLC

(***************************************************************************)
(* Bounds of the model.                                                    *)
(***************************************************************************)
MaxSessions == 1
MaxRequests == 2
MaxDay == 6
MaxWrites == 1

Users == {"u1", "u2"}

\* _id and email of the stored users
StoredUsers ==
    <<[id |-> "u1", email |-> "u1@example.com"],
      [id |-> "u2", email |-> "u2@example.com"]>>

\* SUBSCRIPTION_PACKAGES, the server-side catalog; amounts in cents
SUBSCRIPTION_PACKAGES ==
    [monthly |-> [amount |-> 299, currency |-> "usd"],
     yearly |-> [amount |-> 2999, currency |-> "usd"]]

\* bodies a client may send: a package id, one of them outside the catalog,
\* and an amount of its own, a field SubscriptionRequest does not declare
PackageInputs ==
    {[package_id |-> p, amount |-> 1] :
        p \in DOMAIN SUBSCRIPTION_PACKAGES \cup {"lifetime"}}

SessionIds == 1..MaxSessions

None == [none |-> TRUE]

NoResponse == [op |-> "none", code |-> 0]

VARIABLES
    users,                 \* db.users: user id -> subscription fields
    payment_transactions,  \* db.payment_transactions, keyed by session id
    stripe,                \* the checkout provider's view of each session
    requests,              \* poll / webhook handlers, in flight or returned
    activations,           \* per session, how many activation writes hit db.users
    mood_entries,          \* db.mood_entries: a bag of entry documents
    worries,               \* db.worries: worry id -> document, None once deleted
    response,              \* what the last mood / worry / achievements request returned
    writes,                \* mood and worry documents written so far in this run
    predictions,           \* db.predictions, in insertion order
    llm_calls,             \* how many times the language model was called
    user_docs              \* db.users as register sees it: the emails, in insertion order

payVars == <<users, payment_transactions, stripe, requests, activations>>

achVars == <<mood_entries, worries, response, writes>>

predVars == <<predictions, llm_calls>>

vars == <<users, payment_transactions, stripe, requests, activations,
          mood_entries, worries, response, writes,
          predictions, llm_calls, user_docs>>

(***************************************************************************)
(* Subscription checkout.                                                  *)
(***************************************************************************)

\* the session the provider hands out next
NextSessionId == Cardinality({s \in SessionIds : stripe[s] # None}) + 1

\* the package priced from the body's own amount
CheckoutPackage_ClientAmount(request) ==
    [amount |-> request.amount, currency |-> "usd"]

\* package = SUBSCRIPTION_PACKAGES[request.package_id]
CheckoutPackage(request) ==
    SUBSCRIPTION_PACKAGES[request.package_id]

\* POST /api/subscription/checkout: an unknown package is a 400 and nothing
\* is stored; otherwise the provider opens a session and the transaction is
\* inserted pending / initiated.
CreateSubscriptionCheckout(u, request) ==
    IF request.package_id \notin DOMAIN SUBSCRIPTION_PACKAGES
    THEN /\ response' = [op |-> "create_subscription_checkout", code |-> 400]
         /\ UNCHANGED <<payVars, predVars, user_docs, mood_entries, worries,
                        writes>>
    ELSE /\ NextSessionId \in SessionIds
         /\ stripe' = [stripe EXCEPT ![NextSessionId] =
                           [status |-> "open", payment_status |-> "unpaid"]]
         /\ payment_transactions' =
                [payment_transactions EXCEPT ![NextSessionId] =
                    [user_id |-> u,
                     session_id |-> NextSessionId,
                     package_id |-> request.package_id,
                     amount |-> CheckoutPackage(request).amount,
                     currency |-> CheckoutPackage(request).currency,
                     payment_status |-> "pending",
                     status |-> "initiated",
                     processed |-> FALSE]]
         /\ response' = [op |-> "create_subscription_checkout", code |-> 200]
         /\ UNCHANGED <<predVars, user_docs, mood_entries, worries, writes,
                        users, requests, activations>>

\* create_checkout_session raises: except Exception -> 500, nothing stored
CreateSubscriptionCheckoutFails(u, request) ==
    /\ request.package_id \in DOMAIN SUBSCRIPTION_PACKAGES
    /\ response' = [op |-> "create_subscription_checkout", code |-> 500]
    /\ UNCHANGED <<payVars, predVars, user_docs, mood_entries, worries, writes>>

\* The customer completes the hosted checkout: the provider's session turns
\* complete / paid and stays so.
StripePaymentCompletes(s) ==
    /\ stripe[s] # None
    /\ stripe[s].payment_status # "paid"
    /\ stripe' = [stripe EXCEPT ![s] =
                      [status |-> "complete", payment_status |-> "paid"]]
    /\ UNCHANGED <<achVars, predVars, user_docs, users, payment_transactions,
                   requests, activations>>

(***************************************************************************)
(* Request handlers.  Every await of a handler is a point where another    *)
(* handler may run, so each handler is a sequence of steps.                *)
(***************************************************************************)

InFlight(r) == requests[r].pc # "done"

Quiescent == \A r \in DOMAIN requests : ~InFlight(r)

SetRequest(r, rec) == [requests EXCEPT ![r] = rec]

\* find_one({"session_id": session_id, "user_id": user["_id"]})
FindOwnedTransaction(s, u) ==
    IF payment_transactions[s] # None /\ payment_transactions[s].user_id = u
    THEN payment_transactions[s] ELSE None

\* find_one({"session_id": webhook_response.session_id})
FindTransaction(s) == payment_transactions[s]

\* the $set both handlers apply to the user document
ActivatedUser(transaction) ==
    [subscription_status |-> "active",
     subscription_package |-> transaction.package_id]

\* get_subscription_status up to its first await result: the lookup, the
\* not-found raise (turned into a 500 by the handler's own except clause)
\* and the cached answer for a transaction already paid.
PollFind(u, s) ==
    /\ Len(requests) < MaxRequests
    /\ LET transaction == FindOwnedTransaction(s, u)
           base == [kind |-> "poll", session_id |-> s, user_id |-> u,
                    transaction |-> transaction, observed |-> "none",
                    activated |-> FALSE]
       IN requests' = Append(requests,
              IF transaction = None
              THEN base @@ [pc |-> "done", code |-> 500]
              ELSE IF transaction.payment_status = "paid"
              THEN [base EXCEPT !.observed = "paid"]
                       @@ [pc |-> "done", code |-> 200]
              ELSE base @@ [pc |-> "get_status", code |-> 0])
    /\ UNCHANGED <<achVars, predVars, user_docs, users, payment_transactions,
                   stripe, activations>>

\* if checkout_status.payment_status == "paid" and
\*    transaction.get("payment_status") != "paid"
PollShouldActivate(checkout_status, transaction) ==
    /\ checkout_status.payment_status = "paid"
    /\ transaction.payment_status # "paid"

\* await stripe_checkout.get_checkout_status(session_id)
PollGetStatus(r) ==
    /\ r \in DOMAIN requests
    /\ requests[r].kind = "poll" /\ requests[r].pc = "get_status"
    /\ LET checkout_status == stripe[requests[r].session_id]
       IN requests' = SetRequest(r,
              [requests[r] EXCEPT
                  !.observed = checkout_status.payment_status,
                  !.pc = IF PollShouldActivate(checkout_status,
                                               requests[r].transaction)
                         THEN "activate" ELSE "update"]
              @@ [checkout_status |-> checkout_status])
    /\ UNCHANGED <<achVars, predVars, user_docs, users, payment_transactions,
                   stripe, activations>>

\* the provider call raises: the except clause answers 500
PollGetStatusFails(r) ==
    /\ r \in DOMAIN requests
    /\ requests[r].kind = "poll" /\ requests[r].pc = "get_status"
    /\ requests' = SetRequest(r, [requests[r] EXCEPT !.pc = "done", !.code = 500])
    /\ UNCHANGED <<achVars, predVars, user_docs, users, payment_transactions,
                   stripe, activations>>

\* await db.users.update_one(... subscription_status active ...)
PollActivate(r) ==
    /\ r \in DOMAIN requests
    /\ requests[r].kind = "poll" /\ requests[r].pc = "activate"
    /\ users' = [users EXCEPT ![requests[r].user_id] =
                     ActivatedUser(requests[r].transaction)]
    /\ activations' = [activations EXCEPT ![requests[r].session_id] = @ + 1]
    /\ requests' = SetRequest(r, [requests[r] EXCEPT !.pc = "update",
                                                     !.activated = TRUE])
    /\ UNCHANGED <<achVars, predVars, user_docs, payment_transactions, stripe>>

\* update_data of the poll, as $set on the stored transaction
PollUpdateData(req, stored) ==
    [stored EXCEPT
        !.status = req.checkout_status.status,
        !.payment_status = req.checkout_status.payment_status,
        !.processed = IF req.activated THEN TRUE ELSE @]

\* await db.payment_transactions.update_one({"_id": transaction["_id"]}, ...)
PollUpdate(r) ==
    /\ r \in DOMAIN requests
    /\ requests[r].kind = "poll" /\ requests[r].pc = "update"
    /\ LET s == requests[r].session_id
       IN payment_transactions' =
              [payment_transactions EXCEPT ![s] = PollUpdateData(requests[r], @)]
    /\ requests' = SetRequest(r, [requests[r] EXCEPT !.pc = "done", !.code = 200])
    /\ UNCHANGED <<achVars, predVars, user_docs, users, stripe, activations>>

\* stripe_webhook: handle_webhook parses the delivery.  The provider sends a
\* paid event only for a session it holds as paid; an event carrying another
\* status needs no lookup and the handler answers success.
WebhookReceive(s, payment_status) ==
    /\ Len(requests) < MaxRequests
    /\ stripe[s] # None
    /\ payment_status = "paid" => stripe[s].payment_status = "paid"
    /\ requests' = Append(requests,
           [kind |-> "webhook", session_id |-> s, user_id |-> "none",
            transaction |-> None, observed |-> payment_status,
            activated |-> FALSE,
            pc |-> IF payment_status = "paid" THEN "find" ELSE "done",
            code |-> IF payment_status = "paid" THEN 0 ELSE 200])
    /\ UNCHANGED <<achVars, predVars, user_docs, users, payment_transactions,
                   stripe, activations>>

\* the webhook's guard without its check of the stored payment_status
WebhookShouldActivate_Unchecked(transaction) ==
    transaction # None

\* if transaction and transaction.get("payment_status") != "paid"
WebhookShouldActivate(transaction) ==
    /\ transaction # None
    /\ transaction.payment_status # "paid"

\* transaction = await db.payment_transactions.find_one({"session_id": ...})
WebhookFind(r) ==
    /\ r \in DOMAIN requests
    /\ requests[r].kind = "webhook" /\ requests[r].pc = "find"
    /\ LET transaction == FindTransaction(requests[r].session_id)
       IN requests' = SetRequest(r,
              IF WebhookShouldActivate(transaction)
              THEN [requests[r] EXCEPT !.transaction = transaction,
                                       !.user_id = transaction.user_id,
                                       !.pc = "activate"]
              ELSE [requests[r] EXCEPT !.transaction = transaction,
                                       !.pc = "done", !.code = 200])
    /\ UNCHANGED <<achVars, predVars, user_docs, users, payment_transactions,
                   stripe, activations>>

\* await db.users.update_one({"_id": user_id}, ... active ...)
WebhookActivate(r) ==
    /\ r \in DOMAIN requests
    /\ requests[r].kind = "webhook" /\ requests[r].pc = "activate"
    /\ users' = [users EXCEPT ![requests[r].user_id] =
                     ActivatedUser(requests[r].transaction)]
    /\ activations' = [activations EXCEPT ![requests[r].session_id] = @ + 1]
    /\ requests' = SetRequest(r, [requests[r] EXCEPT !.pc = "update",
                                                     !.activated = TRUE])
    /\ UNCHANGED <<achVars, predVars, user_docs, payment_transactions, stripe>>

\* await db.payment_transactions.update_one(... paid / complete / processed)
WebhookUpdate(r) ==
    /\ r \in DOMAIN requests
    /\ requests[r].kind = "webhook" /\ requests[r].pc = "update"
    /\ LET s == requests[r].session_id
       IN payment_transactions' =
              [payment_transactions EXCEPT ![s] =
                  [@ EXCEPT !.payment_status = "paid",
                            !.status = "complete",
                            !.processed = TRUE]]
    /\ requests' = SetRequest(r, [requests[r] EXCEPT !.pc = "done", !.code = 200])
    /\ UNCHANGED <<achVars, predVars, user_docs, users, stripe, activations>>

(***************************************************************************)
(* Mood entries.                                                           *)
(***************************************************************************)

\* calendar days, as day numbers
Days == 0..MaxDay

\* a datetime: a calendar day and an hour of that day
Timestamp(d, h) == [date |-> d, hour |-> h]

\* datetime.date(): the time of day is dropped
DateOf(ts) == ts.date

\* hours since day 0
HoursOf(ts) == 24 * ts.date + ts.hour

\* a JSON value of a factors mapping: an integer or a text
JsonInt(n) == [type |-> "int", int |-> n]

JsonText == [type |-> "str", int |-> 0]

\* factors: dict, e.g. {"sleep": 7}
NumericFactors == [sleep |-> JsonInt(7)]

\* a body of POST /api/moods with numeric factors
MoodBody(mood_value, journal_text) ==
    [mood_value |-> mood_value, journal_text |-> journal_text,
     factors |-> NumericFactors]

\* request bodies of POST /api/moods: mood_value, journal_text and factors
MoodInputs ==
    {MoodBody(3, "null"), MoodBody(4, "note"),
     MoodBody(0, "null"), MoodBody(6, "null")}

\* a body with any mood_value passes
ValidMoodEntry_AnyValue(mood_data) ==
    TRUE

\* MoodEntry validation: mood_value: int = Field(ge=1, le=5)
ValidMoodEntry(mood_data) ==
    /\ mood_data.mood_value >= 1
    /\ mood_data.mood_value <= 5

\* timestamps a client posts: morning or evening of the first two days
PostTimestamps == {Timestamp(d, h) : d \in {0, 1}, h \in {9, 21}}

\* the document create_mood_entry inserts
MoodDocument(u, ts, mood_data) ==
    [user_id |-> u,
     timestamp |-> ts,
     mood_value |-> mood_data.mood_value,
     factors |-> mood_data.factors,
     journal_text |-> mood_data.journal_text]

\* POST /api/moods
CreateMoodEntry(u, ts, mood_data) ==
    IF ~ValidMoodEntry(mood_data)
    THEN \* the body fails validation before the handler runs
         /\ response' = [op |-> "create_mood_entry", code |-> 422]
         /\ UNCHANGED <<payVars, predVars, user_docs, mood_entries, worries,
                        writes>>
    ELSE /\ writes < MaxWrites
         /\ mood_entries' =
                mood_entries (+) SetToBag({MoodDocument(u, ts, mood_data)})
         /\ response' = [op |-> "create_mood_entry", code |-> 200]
         /\ writes' = writes + 1
         /\ UNCHANGED <<payVars, predVars, user_docs, worries>>

(***************************************************************************)
(* Worries.                                                                *)
(***************************************************************************)

WorryDocument(u, intensity) ==
    [user_id |-> u,
     category |-> "take_action",
     intensity |-> intensity,
     resolved_at |-> "null",
     resolution_note |-> "null"]

\* WorryCreate validation: intensity: int = Field(ge=1, le=10)
ValidWorryCreate(intensity) ==
    intensity >= 1 /\ intensity <= 10

\* POST /api/worry-tree
CreateWorry(u, intensity) ==
    IF ~ValidWorryCreate(intensity)
    THEN \* the body fails validation before the handler runs
         /\ response' = [op |-> "create_worry", code |-> 422]
         /\ UNCHANGED <<payVars, predVars, user_docs, mood_entries, worries,
                        writes>>
    ELSE /\ writes < MaxWrites
         /\ worries' = Append(worries, WorryDocument(u, intensity))
         /\ response' = [op |-> "create_worry", code |-> 200]
         /\ writes' = writes + 1
         /\ UNCHANGED <<payVars, predVars, user_docs, mood_entries>>

\* update_dict: the fields of the request body that are not None
WorryUpdateInputs ==
    {[category |-> "resolved"],
     [category |-> "let_go"],
     [category |-> "resolved", resolution_note |-> "note"]}

\* the worry documents matching {"_id": worry_id} alone
OwnedWorry_AnyUser(u, worry_id) ==
    /\ worry_id \in DOMAIN worries
    /\ worries[worry_id] # None

\* the worry documents matching {"_id": worry_id, "user_id": user["_id"]}
OwnedWorry(u, worry_id) ==
    /\ worry_id \in DOMAIN worries
    /\ worries[worry_id] # None
    /\ worries[worry_id].user_id = u

\* update_dict with resolved_at stamped whatever the category
WorrySet_AlwaysStamped(update_dict) ==
    update_dict @@ [resolved_at |-> "set"]

\* update_dict after the resolved branch: resolved_at is stamped with the
\* time of the request
WorrySet(update_dict) ==
    IF "category" \in DOMAIN update_dict /\ update_dict.category = "resolved"
    THEN update_dict @@ [resolved_at |-> "set"]
    ELSE update_dict

\* $set applied to a stored document
ApplySet(doc, set) ==
    [k \in DOMAIN doc |-> IF k \in DOMAIN set THEN set[k] ELSE doc[k]]

\* modified_count: a fresh resolved_at always differs from the stored one
Modified(doc, set) ==
    \/ "resolved_at" \in DOMAIN set
    \/ ApplySet(doc, set) # doc

\* PUT /api/worry-tree/{worry_id}
UpdateWorry(u, worry_id, update_dict) ==
    /\ writes < MaxWrites
    /\ LET set == WorrySet(update_dict)
           hit == OwnedWorry(u, worry_id) /\ Modified(worries[worry_id], set)
       IN /\ worries' = IF hit
                        THEN [worries EXCEPT ![worry_id] = ApplySet(@, set)]
                        ELSE worries
          /\ response' = [op |-> "update_worry",
                          code |-> IF hit THEN 200 ELSE 404,
                          user_id |-> u, worry_id |-> worry_id]
    /\ writes' = writes + 1
    /\ UNCHANGED <<payVars, predVars, user_docs, mood_entries>>

\* DELETE /api/worry-tree/{worry_id}
DeleteWorry(u, worry_id) ==
    /\ writes < MaxWrites
    /\ worries' = IF OwnedWorry(u, worry_id)
                  THEN [worries EXCEPT ![worry_id] = None]
                  ELSE worries
    /\ response' = [op |-> "delete_worry",
                    code |-> IF OwnedWorry(u, worry_id) THEN 200 ELSE 404,
                    user_id |-> u, worry_id |-> worry_id]
    /\ writes' = writes + 1
    /\ UNCHANGED <<payVars, predVars, user_docs, mood_entries>>

(***************************************************************************)
(* Achievements.                                                           *)
(***************************************************************************)

\* to_list(1000) of the streak query
LIST_CAP == 1000

Min(a, b) == IF a <= b THEN a ELSE b

Max(a, b) == IF a >= b THEN a ELSE b

\* count_documents(filter) on a collection of mood entries
CountMoodEntries(entries, matching) ==
    BagCardinality([e \in matching |-> CopiesIn(e, entries)])

\* the distinct documents of a collection that belong to user u
OfUser(entries, u) == {e \in BagToSet(entries) : e.user_id = u}

\* mood_count
MoodCount(u) == CountMoodEntries(mood_entries, OfUser(mood_entries, u))

\* happy moods counted from mood_value 5 only
HappyMoods_VeryGoodOnly(u) ==
    CountMoodEntries(mood_entries, {e \in OfUser(mood_entries, u) : e.mood_value >= 5})

\* happy_moods: {"mood_value": {"$gte": 4}}
HappyMoods(u) ==
    CountMoodEntries(mood_entries, {e \in OfUser(mood_entries, u) : e.mood_value >= 4})

\* worry_count
WorryCount(u) == Cardinality({w \in DOMAIN worries : OwnedWorry(u, w)})

\* resolved_worries: {"category": "resolved"}
ResolvedWorries(u) ==
    Cardinality({w \in DOMAIN worries :
                    OwnedWorry(u, w) /\ worries[w].category = "resolved"})

\* find({"user_id": ...}).sort("timestamp", -1).to_list(1000), by calendar
\* day: how many of the listed documents fall on each day.  The documents of
\* one day are adjacent in the sorted cursor, so a day contributes what is
\* left of the cap after all later days.
FindMoodEntries(entries, u) ==
    LET mine == OfUser(entries, u)
        on(d) == CountMoodEntries(entries, {e \in mine : DateOf(e.timestamp) = d})
        after(d) == CountMoodEntries(entries, {e \in mine : DateOf(e.timestamp) > d})
        listed(d) == Min(on(d), Max(LIST_CAP - after(d), 0))
        days == {DateOf(e.timestamp) : e \in mine}
    IN [d \in {x \in days : listed(x) > 0} |-> listed(d)]

RECURSIVE SortedDesc(_)
\* sorted(..., reverse=True)
SortedDesc(S) ==
    IF S = {} THEN <<>>
    ELSE LET mx == CHOOSE x \in S : \A y \in S : y <= x
         IN <<mx>> \o SortedDesc(S \ {mx})

RECURSIVE WithRepeats(_, _)
\* the sorted days, a day of several listed entries kept twice
WithRepeats(sorted, listed) ==
    IF sorted = <<>> THEN <<>>
    ELSE (IF listed[Head(sorted)] > 1 THEN <<Head(sorted), Head(sorted)>>
                                      ELSE <<Head(sorted)>>)
         \o WithRepeats(Tail(sorted), listed)

\* the dates collected into a list instead of a set
SortedDates_NotDistinct(listed) ==
    WithRepeats(SortedDesc(BagToSet(listed)), listed)

\* dates = set(entry["timestamp"].date() ...); sorted(dates, reverse=True)
SortedDates(listed) ==
    SortedDesc(BagToSet(listed))

\* the loop round with a gap of two days still counted as consecutive
StreakStep_GapTolerant(st, sorted_dates, i) ==
    LET diff == sorted_dates[i + 1] - sorted_dates[i + 2]
        temp == IF diff <= 2 THEN st.temp_streak + 1 ELSE 1
        current == IF diff <= 2 /\ i = 0 THEN temp ELSE st.current_streak
    IN [temp_streak |-> temp,
        current_streak |-> current,
        longest_streak |-> Max(st.longest_streak, temp)]

\* the loop round with the longest streak fed from current_streak
StreakStep_LongestFromCurrent(st, sorted_dates, i) ==
    LET diff == sorted_dates[i + 1] - sorted_dates[i + 2]
        temp == IF diff = 1 THEN st.temp_streak + 1 ELSE 1
        current == IF diff = 1 /\ i = 0 THEN temp ELSE st.current_streak
    IN [temp_streak |-> temp,
        current_streak |-> current,
        longest_streak |-> Max(st.longest_streak, current)]

\* the loop round with current_streak following the whole leading run
StreakStep_WholeRun(st, sorted_dates, i) ==
    LET diff == sorted_dates[i + 1] - sorted_dates[i + 2]
        temp == IF diff = 1 THEN st.temp_streak + 1 ELSE 1
        current == IF diff = 1 /\ st.temp_streak = i + 1
                   THEN temp ELSE st.current_streak
    IN [temp_streak |-> temp,
        current_streak |-> current,
        longest_streak |-> Max(st.longest_streak, temp)]

\* one round of the loop over adjacent pairs (i counts from 0)
StreakStep(st, sorted_dates, i) ==
    LET diff == sorted_dates[i + 1] - sorted_dates[i + 2]
        temp == IF diff = 1 THEN st.temp_streak + 1 ELSE 1
        current == IF diff = 1 /\ i = 0 THEN temp ELSE st.current_streak
    IN [temp_streak |-> temp,
        current_streak |-> current,
        longest_streak |-> Max(st.longest_streak, temp)]

RECURSIVE StreakLoop(_, _, _)
\* for i in range(len(sorted_dates) - 1)
StreakLoop(st, sorted_dates, i) ==
    IF i >= Len(sorted_dates) - 1 THEN st
    ELSE StreakLoop(StreakStep(st, sorted_dates, i), sorted_dates, i + 1)

\* the streaks without the closing max(longest_streak, current_streak)
ComputeStreak_NoClosingMax(listed) ==
    IF listed = EmptyBag
    THEN [current_streak |-> 0, longest_streak |-> 0]
    ELSE LET st == StreakLoop([temp_streak |-> 1, current_streak |-> 1,
                               longest_streak |-> 0],
                              SortedDates(listed), 0)
         IN [current_streak |-> st.current_streak,
             longest_streak |-> st.longest_streak]

\* current_streak and longest_streak as get_achievements computes them
ComputeStreak(listed) ==
    IF listed = EmptyBag
    THEN [current_streak |-> 0, longest_streak |-> 0]
    ELSE LET st == StreakLoop([temp_streak |-> 1, current_streak |-> 1,
                               longest_streak |-> 0],
                              SortedDates(listed), 0)
         IN [current_streak |-> st.current_streak,
             longest_streak |-> Max(st.longest_streak, st.current_streak)]

\* a catalog row unlocked only while the metric equals the requirement
Threshold_Exact(id, metric, requirement) ==
    [id |-> id,
     unlocked |-> metric = requirement,
     progress |-> Min(metric, requirement),
     requirement |-> requirement]

\* a catalog row whose progress is the metric itself
Threshold_Uncapped(id, metric, requirement) ==
    [id |-> id,
     unlocked |-> metric >= requirement,
     progress |-> metric,
     requirement |-> requirement]

\* a catalog row whose unlock is a threshold on one metric
Threshold(id, metric, requirement) ==
    [id |-> id,
     unlocked |-> metric >= requirement,
     progress |-> Min(metric, requirement),
     requirement |-> requirement]

\* journal entries of the user
JournalCount(u) ==
    CountMoodEntries(mood_entries,
                     {e \in OfUser(mood_entries, u) : e.journal_text # "null"})

\* achievement 6 fed from the number of journal entries
GrowthMindset_Wired(u) ==
    Threshold("6", JournalCount(u), 50)

\* achievement 6, Growth Mindset
GrowthMindset(u) ==
    [id |-> "6", unlocked |-> FALSE, progress |-> 0, requirement |-> 50]

\* the achievements list
Achievements(u, streak) ==
    <<Threshold("1", MoodCount(u), 1),
      Threshold("2", streak.current_streak, 7),
      Threshold("3", streak.current_streak, 30),
      Threshold("4", MoodCount(u), 100),
      Threshold("5", HappyMoods(u), 10),
      GrowthMindset(u),
      Threshold("7", WorryCount(u), 10),
      Threshold("8", ResolvedWorries(u), 20),
      Threshold("9", streak.current_streak, 365)>>

\* num / den cut to its integer part instead of rounded
Round_Truncating(num, den) ==
    num \div den

\* Python round() of num / den: halves go to the even neighbour
Round(num, den) ==
    LET q == num \div den
        r == num % den
    IN IF 2 * r < den THEN q
       ELSE IF 2 * r > den THEN q + 1
       ELSE IF q % 2 = 0 THEN q ELSE q + 1

\* the "stats" object of the response
AchievementStats(achievements) ==
    LET unlocked_count ==
            Cardinality({i \in DOMAIN achievements : achievements[i].unlocked})
    IN [progress |-> unlocked_count,
        total |-> Len(achievements),
        completion |-> Round(unlocked_count * 100, Len(achievements))]

\* GET /api/achievements
GetAchievements(u) ==
    /\ LET listed == FindMoodEntries(mood_entries, u)
           streak == ComputeStreak(listed)
           achievements == Achievements(u, streak)
       IN response' = [op |-> "get_achievements", code |-> 200, user_id |-> u,
                       dates |-> BagToSet(listed),
                       current_streak |-> streak.current_streak,
                       longest_streak |-> streak.longest_streak,
                       achievements |-> achievements,
                       stats |-> AchievementStats(achievements)]
    /\ UNCHANGED <<payVars, predVars, user_docs, mood_entries, worries, writes>>

(***************************************************************************)
(* Stored histories the achievement runs start from: one entry a day on    *)
(* any set of days, or a long history around the catalog's thresholds and  *)
(* the list cap.                                                           *)
(***************************************************************************)

\* one plain morning entry of u1 on every day of S
DailyEntries(S) ==
    SetToBag({MoodDocument("u1", Timestamp(d, 9),
                           MoodBody(3, "null")) : d \in S})

\* n good-mood entries of u1 on day 1 after one plain entry on day 0
LongHistory(n) ==
    DailyEntries({0})
    (+) [e \in {MoodDocument("u1", Timestamp(1, 9),
                             MoodBody(4, "note"))} |-> n]

HistorySizes == {9, 10, 98, 99, 998, 999, 1000}

\* n worries of u1, the first k of them resolved
WorryHistory(n, k) ==
    [w \in 1..n |->
        IF w <= k
        THEN [WorryDocument("u1", 5) EXCEPT !.category = "resolved",
                                             !.resolved_at = "set"]
        ELSE WorryDocument("u1", 5)]

WorryHistories == {WorryHistory(9, 0), WorryHistory(20, 19)}

AchInit ==
    /\ users = [u \in Users |->
                   [subscription_status |-> "none", subscription_package |-> "none"]]
    /\ payment_transactions = [s \in SessionIds |-> None]
    /\ stripe = [s \in SessionIds |-> None]
    /\ requests = <<>>
    /\ activations = [s \in SessionIds |-> 0]
    /\ \/ /\ mood_entries \in {DailyEntries(S) : S \in SUBSET Days}
          /\ worries = <<>>
       \/ /\ mood_entries \in {LongHistory(n) : n \in HistorySizes}
          /\ worries \in WorryHistories
    /\ response = NoResponse
    /\ writes = 0
    /\ predictions = <<>>
    /\ llm_calls = 0
    /\ user_docs = StoredUsers

\* worry ids a request may name: the first, the last stored, one unknown
WorryIdInputs == {1, Len(worries), Len(worries) + 1} \ {0}

AchNext ==
    \/ \E u \in Users, ts \in PostTimestamps, m \in MoodInputs :
           CreateMoodEntry(u, ts, m)
    \/ \E u \in Users : CreateWorry(u, 5)
    \/ \E u \in Users, w \in WorryIdInputs, d \in WorryUpdateInputs :
           UpdateWorry(u, w, d)
    \/ \E u \in Users, w \in WorryIdInputs : DeleteWorry(u, w)
    \/ \E u \in Users : GetAchievements(u)

AchSpec == AchInit /\ [][AchNext]_vars

\* runs of mood entries and achievement reads that start from a long
\* history of u1 and no worries
LongInit ==
    /\ users = [u \in Users |->
                   [subscription_status |-> "none", subscription_package |-> "none"]]
    /\ payment_transactions = [s \in SessionIds |-> None]
    /\ stripe = [s \in SessionIds |-> None]
    /\ requests = <<>>
    /\ activations = [s \in SessionIds |-> 0]
    /\ mood_entries \in {LongHistory(n) : n \in HistorySizes}
    /\ worries = <<>>
    /\ response = NoResponse
    /\ writes = 0
    /\ predictions = <<>>
    /\ llm_calls = 0
    /\ user_docs = StoredUsers

LongNext ==
    \/ \E u \in Users, ts \in PostTimestamps, m \in MoodInputs :
           CreateMoodEntry(u, ts, m)
    \/ \E u \in Users : CreateWorry(u, 5)
    \/ \E u \in Users : GetAchievements(u)

LongSpec == LongInit /\ [][LongNext]_vars

(***************************************************************************)
(* The worry routes on their own, from a few stored worries, with bodies   *)
(* WorryUpdate lets through: any category string and any integer           *)
(* intensity.                                                              *)
(***************************************************************************)

\* intensities a client posts: below, inside and above 1..10
IntensityInputs == {0, 5, 11}

\* update bodies: the categories of the worry tree, the category a worry is
\* created with, a category outside the tree, an intensity in and out of
\* range
WorryUpdateBodies ==
    WorryUpdateInputs
    \cup {[category |-> "take_action"], [category |-> "scheduled"],
          [category |-> "archived"], [intensity |-> 5], [intensity |-> 11]}

\* a worry of u as update_worry leaves it after a change of category
StoredWorry(u, category, resolved_at) ==
    [WorryDocument(u, 5) EXCEPT !.category = category,
                                !.resolved_at = resolved_at]

\* db.worries after earlier requests: empty, a fresh worry, one let go, one
\* resolved, a worry of each user
WorryStores ==
    {<<>>,
     <<WorryDocument("u1", 5)>>,
     <<StoredWorry("u1", "let_go", "null")>>,
     <<StoredWorry("u1", "resolved", "set")>>,
     <<WorryDocument("u1", 5), WorryDocument("u2", 5)>>}

WorryInit ==
    /\ users = [u \in Users |->
                   [subscription_status |-> "none", subscription_package |-> "none"]]
    /\ payment_transactions = [s \in SessionIds |-> None]
    /\ stripe = [s \in SessionIds |-> None]
    /\ requests = <<>>
    /\ activations = [s \in SessionIds |-> 0]
    /\ mood_entries = EmptyBag
    /\ worries \in WorryStores
    /\ response = NoResponse
    /\ writes = 0
    /\ predictions = <<>>
    /\ llm_calls = 0
    /\ user_docs = StoredUsers

WorryNext ==
    \/ \E u \in Users, i \in IntensityInputs : CreateWorry(u, i)
    \/ \E u \in Users, w \in WorryIdInputs, d \in WorryUpdateBodies :
           UpdateWorry(u, w, d)
    \/ \E u \in Users, w \in WorryIdInputs : DeleteWorry(u, w)

WorrySpec == WorryInit /\ [][WorryNext]_vars

(***************************************************************************)
(* Mood prediction.  generate_prediction reads the caller's entries of the *)
(* last 14 days, calls the language model once and stores what it makes of *)
(* the reply.  A reply is described by what the handler does with it:      *)
(* whether json.loads accepts it, whether the value is an object, which    *)
(* keys it has, whether the values have the types PredictionResponse       *)
(* asks for, and the two numbers (in tenths).                              *)
(***************************************************************************)

MaxCalls == 1

WINDOW_DAYS == 14

MIN_ENTRIES == 3

\* datetime.utcnow() of the prediction runs
Now == Timestamp(20, 12)

\* start_date = utcnow() - timedelta(days=14)
StartDate == Timestamp(Now.date - WINDOW_DAYS, Now.hour)

\* timestamp >= start_date
NotBefore(ts, start) ==
    \/ ts.date > start.date
    \/ ts.date = start.date /\ ts.hour >= start.hour

\* every entry of the user, whatever its timestamp
WindowEntries_AllTime(u) ==
    OfUser(mood_entries, u)

\* the entries matched by {"user_id": ..., "timestamp": {"$gte": start_date}}
WindowEntries(u) ==
    {e \in OfUser(mood_entries, u) : NotBefore(e.timestamp, StartDate)}

\* len(entries) after to_list(1000)
LenEntries(u) ==
    Min(CountMoodEntries(mood_entries, WindowEntries(u)), LIST_CAP)

ResultFields == {"predicted_mood", "confidence", "reasoning", "coping_strategies"}

Reply(valid_json, is_object, fields, well_typed, predicted_mood, confidence) ==
    [valid_json |-> valid_json, is_object |-> is_object, fields |-> fields,
     well_typed |-> well_typed, predicted_mood |-> predicted_mood,
     confidence |-> confidence]

\* the default response of lines 381-390: predicted_mood 3.5, confidence 0.7
Fallback == Reply(TRUE, TRUE, ResultFields, TRUE, 35, 7)

\* replies of the language model: the JSON asked for, plain text, an object
\* without coping_strategies, a JSON array, the four keys with a confidence
\* that is not a number
LlmReplies ==
    {Reply(TRUE, TRUE, ResultFields, TRUE, 42, 9),
     Reply(FALSE, FALSE, {}, FALSE, 0, 0),
     Reply(TRUE, TRUE, ResultFields \ {"coping_strategies"}, TRUE, 42, 9),
     Reply(TRUE, FALSE, {}, FALSE, 0, 0),
     Reply(TRUE, TRUE, ResultFields, FALSE, 42, 0)}

\* what chat.send_message does: it raises, or it returns a reply
LlmOutcomes ==
    {[raised |-> TRUE, reply |-> Reply(FALSE, FALSE, {}, FALSE, 0, 0)]}
    \cup {[raised |-> FALSE, reply |-> r] : r \in LlmReplies}

\* try: result = json.loads(response)  except: result = <default>
ParseReply(reply) ==
    IF reply.valid_json THEN reply ELSE Fallback

\* result["predicted_mood"] .. result["coping_strategies"] can be read
Subscriptable(result) ==
    result.is_object /\ ResultFields \subseteq result.fields

\* the document generate_prediction inserts
PredictionDocument(u, result) ==
    [user_id |-> u,
     predicted_mood |-> result.predicted_mood,
     confidence |-> result.confidence,
     well_typed |-> result.well_typed,
     is_active |-> TRUE]

\* a failed call answered with the default response
CallRaised_Defaulted(u) ==
    [code |-> 200, detail |-> "none",
     inserted |-> <<PredictionDocument(u, Fallback)>>]

\* chat.send_message raised: except Exception -> 500 with str(e) as detail
CallRaised(u) ==
    [code |-> 500, detail |-> "model call failed", inserted |-> <<>>]

\* the try block once the model has replied: the status code and the
\* documents inserted before the block returned or raised
HandleReply(u, reply) ==
    LET result == ParseReply(reply)
    IN IF ~Subscriptable(result)
       THEN \* KeyError / TypeError while building the document
            [code |-> 500, detail |-> "KeyError or TypeError",
             inserted |-> <<>>]
       ELSE IF ~result.well_typed
       THEN \* inserted, then PredictionResponse(...) fails validation
            [code |-> 500, detail |-> "ValidationError",
             inserted |-> <<PredictionDocument(u, result)>>]
       ELSE [code |-> 200, detail |-> "none",
             inserted |-> <<PredictionDocument(u, result)>>]

\* POST /api/predictions/generate
GeneratePrediction(u, outcome) ==
    IF LenEntries(u) < MIN_ENTRIES
    THEN /\ response' = [op |-> "generate_prediction", code |-> 400,
                         detail |-> "Need at least 3 mood entries",
                         user_id |-> u]
         /\ UNCHANGED <<payVars, predVars, user_docs, mood_entries, worries,
                        writes>>
    ELSE /\ llm_calls < MaxCalls
         /\ llm_calls' = llm_calls + 1
         /\ LET done == IF outcome.raised THEN CallRaised(u)
                        ELSE HandleReply(u, outcome.reply)
            IN /\ predictions' = predictions \o done.inserted
               /\ response' = [op |-> "generate_prediction",
                               code |-> done.code, detail |-> done.detail,
                               user_id |-> u]
         /\ UNCHANGED <<payVars, user_docs, mood_entries, worries, writes>>

\* timestamps around the window's start and inside it
WindowTimestamps ==
    {Timestamp(StartDate.date, StartDate.hour - 1), StartDate,
     Timestamp(Now.date - 1, 9)}

\* stored entries: of u1, up to one just before the window, up to one on its
\* first instant and up to three from yesterday; of u2, none or three
WindowHistory(before, edge, recent, other) ==
    LET Entry(u, ts) ==
            MoodDocument(u, ts, MoodBody(3, "null"))
        count == (Entry("u1", Timestamp(StartDate.date, StartDate.hour - 1))
                      :> before)
                 @@ (Entry("u1", StartDate) :> edge)
                 @@ (Entry("u1", Timestamp(Now.date - 1, 9)) :> recent)
                 @@ (Entry("u2", Timestamp(Now.date - 1, 9)) :> other)
    IN [e \in {d \in DOMAIN count : count[d] > 0} |-> count[e]]

PredInit ==
    /\ users = [u \in Users |->
                   [subscription_status |-> "none", subscription_package |-> "none"]]
    /\ payment_transactions = [s \in SessionIds |-> None]
    /\ stripe = [s \in SessionIds |-> None]
    /\ requests = <<>>
    /\ activations = [s \in SessionIds |-> 0]
    /\ mood_entries \in {WindowHistory(b, e, r, o) :
                            b \in {0, 1}, e \in {0, 1}, r \in 0..3, o \in {0, 3}}
    /\ worries = <<>>
    /\ response = NoResponse
    /\ writes = 0
    /\ predictions = <<>>
    /\ llm_calls = 0
    /\ user_docs = StoredUsers

\* bodies without a journal text, in and out of range
PlainMoodInputs == {m \in MoodInputs : m.journal_text = "null"}

PredNext ==
    \/ \E u \in Users, ts \in WindowTimestamps, m \in PlainMoodInputs :
           CreateMoodEntry(u, ts, m)
    \/ \E u \in Users, o \in LlmOutcomes : GeneratePrediction(u, o)

PredSpec == PredInit /\ [][PredNext]_vars

(***************************************************************************)
(* Mood statistics.                                                        *)
(***************************************************************************)

\* the days query parameter: the default of 30 and a shorter window
DaysInputs == {7, 30}

\* start_date = utcnow() - timedelta(days=days)
StatsStart(days) == Timestamp(Now.date - days, Now.hour)

\* the sum of f over S
RECURSIVE Total(_, _)
Total(f, S) ==
    IF S = {}
    THEN 0
    ELSE LET x == CHOOSE y \in S : TRUE
         IN f[x] + Total(f, S \ {x})

\* the documents matched by {"user_id": ..., "timestamp": {"$gte":
\* start_date}}, each with its number of copies
Matching(u, days) ==
    [e \in {d \in OfUser(mood_entries, u) :
                NotBefore(d.timestamp, StatsStart(days))}
        |-> CopiesIn(e, mood_entries)]

\* to_list(1000) of a find without a sort: everything that matches, or any
\* LIST_CAP of the matching documents when there are more
Listings(matching) ==
    LET over == Total(matching, DOMAIN matching) - LIST_CAP
        Dropped == {d \in [DOMAIN matching -> 0..Max(over, 0)] :
                       /\ \A e \in DOMAIN matching : d[e] <= matching[e]
                       /\ Total(d, DOMAIN matching) = over}
    IN IF over <= 0
       THEN {matching}
       ELSE {[e \in {x \in DOMAIN matching : matching[x] > d[x]}
                 |-> matching[e] - d[e]] : d \in Dropped}

\* a quotient as numerator and denominator
Quotient(num, den) == [num |-> num, den |-> den]

\* e["factors"].get(key, 0)
FactorOf(e, key) ==
    IF key \in DOMAIN e.factors THEN e.factors[key] ELSE JsonInt(0)

\* sum(...) over the listed entries raises TypeError on a text
SumRaises(entries, factor_keys) ==
    \E key \in factor_keys, e \in DOMAIN entries :
        FactorOf(e, key).type # "int"

\* the aggregate of a non-empty listing whose first document is first
MoodStats(entries, first) ==
    LET len == Total(entries, DOMAIN entries)
        total_mood ==
            Total([e \in DOMAIN entries |-> entries[e] * e.mood_value],
                  DOMAIN entries)
        factor_keys == DOMAIN first.factors
    IN [average_mood |-> Quotient(total_mood, len),
        total_entries |-> len,
        mood_distribution |->
            [v \in {e.mood_value : e \in DOMAIN entries} |->
                Total(entries, {e \in DOMAIN entries : e.mood_value = v})],
        average_factors |->
            [key \in factor_keys |->
                Quotient(Total([e \in DOMAIN entries |->
                                   entries[e] * FactorOf(e, key).int],
                               DOMAIN entries),
                         len)]]

\* the aggregate returned when nothing matches
EmptyStats ==
    [average_mood |-> Quotient(0, 1),
     total_entries |-> 0,
     mood_distribution |-> [v \in {} |-> 0],
     average_factors |-> [key \in {} |-> 0]]

\* GET /api/moods/stats?days=N
GetMoodStats(u, days) ==
    /\ \E entries \in Listings(Matching(u, days)) :
           IF DOMAIN entries = {}
           THEN response' = [op |-> "get_mood_stats", code |-> 200,
                             user_id |-> u, days |-> days] @@ EmptyStats
           ELSE \E first \in DOMAIN entries :
                    IF SumRaises(entries, DOMAIN first.factors)
                    THEN \* the TypeError is not handled
                         response' = [op |-> "get_mood_stats", code |-> 500,
                                      user_id |-> u, days |-> days]
                    ELSE response' =
                             [op |-> "get_mood_stats", code |-> 200,
                              user_id |-> u, days |-> days]
                                 @@ MoodStats(entries, first)
    /\ UNCHANGED <<payVars, predVars, user_docs, mood_entries, worries,
                   writes>>

\* timestamps inside the 7-day window, inside the 30-day window only, and
\* outside both
StatsTimestamps ==
    {Timestamp(Now.date - 1, 9), Timestamp(Now.date - 10, 9),
     Timestamp(Now.date - 40, 9)}

\* stored entries: of u1, up to LIST_CAP of value 3 from yesterday, up to
\* one of value 5 from ten days ago and up to one from forty days ago; of
\* u2, none or three of value 1
StatsHistory(recent, month, old, other) ==
    LET count == (MoodDocument("u1", Timestamp(Now.date - 1, 9),
                               MoodBody(3, "null")) :> recent)
                 @@ (MoodDocument("u1", Timestamp(Now.date - 10, 9),
                                  MoodBody(5, "null")) :> month)
                 @@ (MoodDocument("u1", Timestamp(Now.date - 40, 9),
                                  MoodBody(4, "null")) :> old)
                 @@ (MoodDocument("u2", Timestamp(Now.date - 1, 9),
                                  MoodBody(1, "null")) :> other)
    IN [e \in {d \in DOMAIN count : count[d] > 0} |-> count[e]]

StatsInit ==
    /\ users = [u \in Users |->
                   [subscription_status |-> "none", subscription_package |-> "none"]]
    /\ payment_transactions = [s \in SessionIds |-> None]
    /\ stripe = [s \in SessionIds |-> None]
    /\ requests = <<>>
    /\ activations = [s \in SessionIds |-> 0]
    /\ mood_entries \in {StatsHistory(r, m, o, x) :
                            r \in {0, 2, LIST_CAP - 1, LIST_CAP},
                            m \in {0, 1}, o \in {0, 1}, x \in {0, 3}}
    /\ worries = <<>>
    /\ response = NoResponse
    /\ writes = 0
    /\ predictions = <<>>
    /\ llm_calls = 0
    /\ user_docs = StoredUsers

\* bodies of POST /api/moods: factors is any dict, so a text passes, and
\* so does a mapping with other keys
StatsMoodInputs ==
    {MoodBody(2, "null"), MoodBody(0, "null"),
     [MoodBody(4, "null") EXCEPT !.factors = [sleep |-> JsonText]],
     [MoodBody(5, "null") EXCEPT !.factors = [stress |-> JsonInt(3)]]}

StatsNext ==
    \/ \E u \in Users, ts \in StatsTimestamps, m \in StatsMoodInputs :
           CreateMoodEntry(u, ts, m)
    \/ \E u \in Users, days \in DaysInputs : GetMoodStats(u, days)

StatsSpec == StatsInit /\ [][StatsNext]_vars

(***************************************************************************)
(* Specifications.  The subscription handlers write db.users and           *)
(* db.payment_transactions only, the mood, worry and achievement routes    *)
(* db.mood_entries and db.worries only, so each group is run on its own:   *)
(* Spec and SeqSpec from the empty store, AchSpec, LongSpec, WorrySpec,    *)
(* PredSpec and StatsSpec (above) from a stored history, ProfileSpec and   *)
(* AuthSpec (below) with profile updates and registrations.                *)
(***************************************************************************)

Init ==
    /\ users = [u \in Users |->
                   [subscription_status |-> "none", subscription_package |-> "none"]]
    /\ payment_transactions = [s \in SessionIds |-> None]
    /\ stripe = [s \in SessionIds |-> None]
    /\ requests = <<>>
    /\ activations = [s \in SessionIds |-> 0]
    /\ mood_entries = EmptyBag
    /\ worries = <<>>
    /\ response = NoResponse
    /\ writes = 0
    /\ predictions = <<>>
    /\ llm_calls = 0
    /\ user_docs = StoredUsers

\* a handler is entered
StartRequest ==
    \/ \E u \in Users, s \in SessionIds : PollFind(u, s)
    \/ \E s \in SessionIds, ps \in {"paid", "unpaid"} : WebhookReceive(s, ps)

\* a handler resumes after an await
StepRequest ==
    \E r \in 1..MaxRequests :
        \/ PollGetStatus(r)
        \/ PollGetStatusFails(r)
        \/ PollActivate(r)
        \/ PollUpdate(r)
        \/ WebhookFind(r)
        \/ WebhookActivate(r)
        \/ WebhookUpdate(r)

Environment ==
    \/ \E u \in Users, p \in PackageInputs : CreateSubscriptionCheckout(u, p)
    \/ \E u \in Users, p \in PackageInputs :
           CreateSubscriptionCheckoutFails(u, p)
    \/ \E s \in SessionIds : StripePaymentCompletes(s)

\* handlers interleave at their awaits
Next == StartRequest \/ StepRequest \/ Environment

Spec == Init /\ [][Next]_vars

\* handlers run one after the other: none is entered while one is in flight
SeqNext == (Quiescent /\ StartRequest) \/ StepRequest \/ Environment

SeqSpec == Init /\ [][SeqNext]_vars

(***************************************************************************)
(* Profile updates next to the payment handlers.                           *)
(***************************************************************************)

\* the fields of UserUpdate
UserUpdateFields ==
    {"name", "theme_preference", "notification_enabled", "notification_times"}

\* bodies of PUT /api/auth/profile: a theme, and bodies that also name the
\* subscription fields
ProfileInputs ==
    {[theme_preference |-> "dark"],
     [theme_preference |-> "dark", subscription_status |-> "active",
      subscription_package |-> "yearly"],
     [subscription_status |-> "active"]}

\* every key of the body taken into the $set
UpdateDict_WholeBody(body) ==
    body

\* update_data.dict() without its None values: the model's fields only
UpdateDict(body) ==
    [k \in DOMAIN body \cap UserUpdateFields |-> body[k]]

\* PUT /api/auth/profile: the $set as it reaches the subscription fields,
\* the part of a user document that users holds
UpdateProfile(u, body) ==
    /\ LET update_dict == UpdateDict(body)
       IN users' = IF DOMAIN update_dict # {}
                   THEN [users EXCEPT ![u] = ApplySet(@, update_dict)]
                   ELSE users
    /\ response' = [op |-> "update_profile", code |-> 200]
    /\ UNCHANGED <<predVars, user_docs, mood_entries, worries, writes,
                   payment_transactions, stripe, requests, activations>>

\* profile updates too are entered only while no handler is in flight
ProfileNext ==
    \/ SeqNext
    \/ /\ Quiescent
       /\ \E u \in Users, body \in ProfileInputs : UpdateProfile(u, body)

ProfileSpec == Init /\ [][ProfileNext]_vars

(***************************************************************************)
(* Registration.  register looks the email up, awaits, and only then       *)
(* inserts; db.users has no unique index on email.  The two users of the   *)
(* other specifications are stored from the start.                         *)
(***************************************************************************)

\* emails a client registers with: one that is taken, two that are free
EmailInputs == {"u1@example.com", "new@example.com", "other@example.com"}

\* str(uuid.uuid4()): an id no stored user has
FreshIds == <<"u3", "u4", "u5", "u6">>

\* db.users.find_one({"email": email})
FindUserByEmail(email) ==
    {i \in DOMAIN user_docs : user_docs[i].email = email}

\* register up to its first await: 400 if the email is taken
RegisterFind(email) ==
    /\ Len(requests) < MaxRequests
    /\ requests' = Append(requests,
           IF FindUserByEmail(email) # {}
           THEN [kind |-> "register", email |-> email, pc |-> "done",
                 code |-> 400]
           ELSE [kind |-> "register", email |-> email, pc |-> "insert",
                 code |-> 0])
    /\ UNCHANGED <<achVars, predVars, user_docs, users, payment_transactions,
                   stripe, activations>>

\* await db.users.insert_one(user), then the token is returned
RegisterInsert(r) ==
    /\ r \in DOMAIN requests
    /\ requests[r].kind = "register"
    /\ requests[r].pc = "insert"
    /\ user_docs' =
           Append(user_docs,
                  [id |-> FreshIds[Len(user_docs) - Len(StoredUsers) + 1],
                   email |-> requests[r].email])
    /\ requests' = SetRequest(r, [requests[r] EXCEPT !.pc = "done",
                                                     !.code = 200])
    /\ UNCHANGED <<achVars, predVars, users, payment_transactions, stripe,
                   activations>>

(***************************************************************************)
(* Bearer authentication.  Every route but register, login and the webhook *)
(* depends on get_current_user, which depends on HTTPBearer().  A token is *)
(* described by what jwt.decode looks at: its form, the key it was signed  *)
(* with, its expiry (in hours) and the user_id claim.                      *)
(***************************************************************************)

JWT_EXPIRATION_HOURS == 720

Token(form, key, exp, user_id) ==
    [form |-> form, key |-> key, exp |-> exp, user_id |-> user_id]

\* create_access_token as called at the given hour
CreateAccessToken(user_id, issued) ==
    Token("jwt", "JWT_SECRET", issued + JWT_EXPIRATION_HOURS, user_id)

\* no Authorization header at all
NoToken == Token("absent", "none", 0, "null")

\* what a client may send: nothing, "invalid_token_12345", a token of u1
\* issued an hour ago, one of u1 issued 30 days and an hour ago, one signed
\* with another key, one without the user_id claim, one naming a user id
\* that is stored only once a registration has inserted it
TokenInputs ==
    {NoToken,
     Token("garbage", "none", 0, "null"),
     CreateAccessToken("u1", HoursOf(Now) - 1),
     CreateAccessToken("u1", HoursOf(Now) - 1 - JWT_EXPIRATION_HOURS),
     Token("jwt", "another key", HoursOf(Now) + 1, "u1"),
     Token("jwt", "JWT_SECRET", HoursOf(Now) + 1, "null"),
     CreateAccessToken("u3", HoursOf(Now) - 1)}

\* jwt.decode(token, JWT_SECRET, ...) returns the payload: the token is a
\* JWT signed with JWT_SECRET and its exp is not in the past
Decodes(token) ==
    /\ token.form = "jwt"
    /\ token.key = "JWT_SECRET"
    /\ token.exp >= HoursOf(Now)

\* db.users.find_one({"_id": user_id})
FindUserById(user_id) ==
    {i \in DOMAIN user_docs : user_docs[i].id = user_id}

\* HTTPBearer() on a request without credentials raises before
\* get_current_user runs: 403 in the FastAPI releases that answer
\* "Not authenticated" with HTTP_403_FORBIDDEN, 401 in the later ones
BearerMissingCodes == {401, 403}

\* the outcomes of Depends(get_current_user): a status code and, for 200,
\* the user the handler runs for
GetCurrentUser(token) ==
    IF token.form = "absent"
    THEN {[code |-> c, user_id |-> "null"] : c \in BearerMissingCodes}
    ELSE IF ~Decodes(token)
    THEN {[code |-> 401, user_id |-> "null"]}
    ELSE IF token.user_id = "null"
    THEN {[code |-> 401, user_id |-> "null"]}
    ELSE IF FindUserById(token.user_id) = {}
    THEN {[code |-> 401, user_id |-> "null"]}
    ELSE {[code |-> 200, user_id |-> token.user_id]}

\* the routes that depend on get_current_user
ProtectedOps ==
    {"get_me", "update_profile", "create_mood_entry", "get_mood_entries",
     "get_mood_stats", "export_mood_data", "generate_prediction",
     "get_predictions", "create_worry", "get_worries", "update_worry",
     "delete_worry", "get_achievements", "create_subscription_checkout",
     "get_subscription_status"}

\* the dependency raised: the handler is not entered
Refused(op, code) ==
    /\ response' = [op |-> op, code |-> code]
    /\ UNCHANGED <<payVars, predVars, user_docs, mood_entries, worries, writes>>

\* a request to a protected route carrying the token
ProtectedCall(token) ==
    \E auth \in GetCurrentUser(token) :
        IF auth.code # 200
        THEN \E op \in ProtectedOps : Refused(op, auth.code)
        ELSE LET u == auth.user_id
             IN \/ \E m \in PlainMoodInputs : CreateMoodEntry(u, Now, m)
                \/ CreateWorry(u, 5)
                \/ \E w \in WorryIdInputs : DeleteWorry(u, w)
                \/ \E p \in PackageInputs : CreateSubscriptionCheckout(u, p)

AuthNext ==
    \/ \E email \in EmailInputs : RegisterFind(email)
    \/ \E r \in 1..MaxRequests : RegisterInsert(r)
    \/ \E token \in TokenInputs : ProtectedCall(token)

AuthSpec == Init /\ [][AuthNext]_vars

(***************************************************************************)
(* Subscription activation: properties.                                    *)
(***************************************************************************)

\* a returned handler of the given kind that saw session s as paid
ReturnedPaid(kind, s) ==
    \E r \in DOMAIN requests :
        /\ requests[r].kind = kind
        /\ requests[r].session_id = s
        /\ requests[r].pc = "done"
        /\ requests[r].code = 200
        /\ requests[r].observed = "paid"

\* C1: for one checkout session the provider holds as paid, the activation
\* update of the user is applied at most once under every interleaving of
\* the steps of the status poll and the webhook handlers.
ActivatedAtMostOnce ==
    \A s \in SessionIds : activations[s] <= 1

\* C2: when a status poll and a webhook of the same session both see it paid
\* and run one after the other, in either order, the owner's subscription is
\* activated exactly once (the second handler writes no activation) and the
\* transaction's payment_status is paid at the end.
SequentialActivatesOnce ==
    \A s \in SessionIds :
        /\ activations[s] <= 1
        /\ (Quiescent /\ ReturnedPaid("poll", s) /\ ReturnedPaid("webhook", s)) =>
               /\ activations[s] = 1
               /\ payment_transactions[s].payment_status = "paid"
               /\ users[payment_transactions[s].user_id].subscription_status = "active"

\* the poll came first and activated, the webhook that followed wrote nothing
PollThenWebhookReturned ==
    /\ Len(requests) = 2
    /\ Quiescent
    /\ requests[1].kind = "poll" /\ requests[1].activated
    /\ requests[2].kind = "webhook" /\ requests[2].observed = "paid"
    /\ ~requests[2].activated
    /\ requests[1].session_id = requests[2].session_id

(***************************************************************************)
(* Achievements: properties.  The reference quantities below are written   *)
(* from the definition of a streak and of each metric, not from the walk   *)
(* of get_achievements.                                                    *)
(***************************************************************************)

\* the last request was GET /api/achievements
AchievementsReturned == response.op = "get_achievements"

\* the most recent day of a non-empty set of days
MostRecent(S) == CHOOSE x \in S : \A y \in S : y <= x

\* how many consecutive days of S end at day d of S
RunEndingAt(S, d) ==
    CHOOSE n \in 1..Cardinality(S) :
        /\ \A k \in 0..(n - 1) : (d - k) \in S
        /\ (d - n) \notin S

\* the longest run of consecutive days anywhere in a non-empty S
LongestRun(S) ==
    CHOOSE n \in 1..Cardinality(S) :
        /\ \E d \in S : RunEndingAt(S, d) = n
        /\ \A d \in S : RunEndingAt(S, d) <= n

\* the distinct stored mood entries of u
EntriesOf(u) == {e \in DOMAIN mood_entries : e.user_id = u}

\* how many stored mood entries the documents of S stand for
NumberOfEntries(S) == BagCardinality([e \in S |-> mood_entries[e]])

\* ids of the stored worries of u
WorriesOf(u) ==
    {w \in DOMAIN worries : worries[w] # None /\ worries[w].user_id = u}

\* C3: for every non-empty set of distinct entry dates the current streak is
\* the length of the unbroken run of consecutive days ending at the most
\* recent date; dates {D, D-1, D-2} give current = longest = 3.
CurrentStreakIsRunLength ==
    (AchievementsReturned /\ response.dates # {}) =>
        LET S == response.dates
            D == MostRecent(S)
        IN /\ response.current_streak = RunEndingAt(S, D)
           /\ S = {D, D - 1, D - 2} =>
                 (response.current_streak = 3 /\ response.longest_streak = 3)

\* C4: a gap of more than one day breaks the streak: {D, D-2} gives
\* current = longest = 1, {D, D-1, D-3, D-4} gives current = longest = 2, and
\* no date older than the first gap below the most recent date counts in the
\* current streak.
GapBreaksStreak ==
    (AchievementsReturned /\ response.dates # {}) =>
        LET S == response.dates
            D == MostRecent(S)
        IN /\ S = {D, D - 2} =>
                 (response.current_streak = 1 /\ response.longest_streak = 1)
           /\ S = {D, D - 1, D - 3, D - 4} =>
                 (response.current_streak = 2 /\ response.longest_streak = 2)
           /\ response.current_streak <= RunEndingAt(S, D)
           /\ (D - 1) \notin S => response.current_streak = 1

\* achievements were computed over days D, D-1, D-3, D-4
GapAfterTwoDaysReturned ==
    /\ AchievementsReturned
    /\ \E D \in Days : response.dates = {D, D - 1, D - 3, D - 4}
    /\ response.current_streak = 2

\* C5: achievement 2 is unlocked exactly when the run of consecutive days
\* ending at the most recent entry date is at least 7, with progress 7 for a
\* run of 7 days; likewise achievements 3 and 9 for 30 and 365 days.
StreakAchievementsFollowRun ==
    (AchievementsReturned /\ response.dates # {}) =>
        LET run == RunEndingAt(response.dates, MostRecent(response.dates))
            a == response.achievements
        IN /\ a[2].unlocked <=> run >= 7
           /\ run >= 7 => a[2].progress = 7
           /\ a[3].unlocked <=> run >= 30
           /\ a[9].unlocked <=> run >= 365

\* C6: for every non-empty set of distinct entry dates the longest streak is
\* the length of the longest run of consecutive days anywhere in the set.
LongestStreakIsLongestRun ==
    (AchievementsReturned /\ response.dates # {}) =>
        response.longest_streak = LongestRun(response.dates)

\* the longest run (3 days or more) lies below a gap, not at the recent end
OlderRunIsLongestReturned ==
    /\ AchievementsReturned
    /\ response.dates # {}
    /\ response.longest_streak >= 3
    /\ RunEndingAt(response.dates, MostRecent(response.dates)) = 1

\* C7: for every set of distinct entry dates current_streak <= longest_streak,
\* and both are 1 when the set has exactly one date.
CurrentAtMostLongest ==
    AchievementsReturned =>
        /\ response.current_streak <= response.longest_streak
        /\ Cardinality(response.dates) = 1 =>
              (response.current_streak = 1 /\ response.longest_streak = 1)

\* achievements were computed over a single date
SingleDateReturned ==
    /\ AchievementsReturned
    /\ Cardinality(response.dates) = 1

\* the streaks get_achievements reports for u over the stored entries
StreaksOf(entries, u) == ComputeStreak(FindMoodEntries(entries, u))

\* entry e falls on a calendar date on which its user already has an entry
OnStoredDate(e) ==
    \E x \in DOMAIN mood_entries :
        x.user_id = e.user_id /\ DateOf(x.timestamp) = DateOf(e.timestamp)

\* the streaks of e's user are the same with e stored as without
StreaksKeptWith(e) ==
    StreaksOf(mood_entries (+) SetToBag({e}), e.user_id)
        = StreaksOf(mood_entries, e.user_id)

\* C8 as stated: one more mood entry on a calendar date that already has an
\* entry of that user leaves the current and the longest streak unchanged.
SameDayEntryKeepsStreaks ==
    [][\A e \in DOMAIN mood_entries' :
          (mood_entries' = mood_entries (+) SetToBag({e}) /\ OnStoredDate(e))
              => StreaksKeptWith(e)]_vars

\* C8: one more mood entry on a calendar date that already has an entry of
\* that user leaves the current and the longest streak unchanged, provided
\* the user had fewer than 1000 mood entries before it.
SameDayEntryKeepsStreaksBelowCap ==
    [][\A e \in DOMAIN mood_entries' :
          (/\ mood_entries' = mood_entries (+) SetToBag({e})
           /\ OnStoredDate(e)
           /\ NumberOfEntries(EntriesOf(e.user_id)) < 1000)
              => StreaksKeptWith(e)]_vars

\* u1 has one entry a day but for one day with two, and a streak of 2
SameDayEntryStored ==
    /\ response.op = "create_mood_entry"
    /\ LET mine == EntriesOf("u1")
       IN /\ NumberOfEntries(mine)
                 = Cardinality({DateOf(e.timestamp) : e \in mine}) + 1
          /\ StreaksOf(mood_entries, "u1").current_streak = 2

\* C9: achievements 1, 4, 5, 7 and 8 are unlocked exactly when the metric
\* (mood entries, mood entries, entries with mood_value >= 4, worries,
\* resolved worries) reaches the requirement (1, 100, 10, 10, 20), with
\* progress = min(metric, requirement), each on its own metric.
CountAchievementsFollowMetric ==
    AchievementsReturned =>
        LET u == response.user_id
            a == response.achievements
            entries == NumberOfEntries(EntriesOf(u))
            happy == NumberOfEntries({e \in EntriesOf(u) : e.mood_value \in {4, 5}})
            all == Cardinality(WorriesOf(u))
            resolved == Cardinality({w \in WorriesOf(u) :
                                        worries[w].category = "resolved"})
            Row(i, metric, req) ==
                /\ a[i].requirement = req
                /\ a[i].unlocked <=> metric >= req
                /\ a[i].progress = (IF metric < req THEN metric ELSE req)
        IN /\ Row(1, entries, 1)
           /\ Row(4, entries, 100)
           /\ Row(5, happy, 10)
           /\ Row(7, all, 10)
           /\ Row(8, resolved, 20)

\* all five count achievements are reported unlocked
CountAchievementsUnlocked ==
    /\ AchievementsReturned
    /\ \A i \in {1, 4, 5, 7, 8} : response.achievements[i].unlocked

\* C10: achievement 6 (Growth Mindset) is always reported with
\* unlocked = false, progress = 0 and requirement = 50.
GrowthMindsetStaysLocked ==
    AchievementsReturned =>
        /\ response.achievements[6].id = "6"
        /\ response.achievements[6].unlocked = FALSE
        /\ response.achievements[6].progress = 0
        /\ response.achievements[6].requirement = 50

\* achievements returned for a user with 50 or more journal entries
ManyJournalsReturned ==
    /\ AchievementsReturned
    /\ NumberOfEntries({e \in EntriesOf(response.user_id) :
                            e.journal_text # "null"}) >= 50

\* C11: get_achievements returns the 9 catalog rows in order (ids "1".."9")
\* with stats.total = 9, stats.progress = the number of rows reported
\* unlocked and stats.completion = progress / 9 * 100 rounded to the nearest
\* integer; with exactly 3 unlocked the completion is 33.
StatsSummariseCatalog ==
    AchievementsReturned =>
        LET a == response.achievements
            s == response.stats
            ids == <<"1", "2", "3", "4", "5", "6", "7", "8", "9">>
            unlocked == {i \in 1..Len(a) : a[i].unlocked}
            off == 9 * s.completion - 100 * s.progress
        IN /\ Len(a) = 9
           /\ \A i \in 1..9 : a[i].id = ids[i]
           /\ s.total = 9
           /\ s.progress = Cardinality(unlocked)
           /\ 2 * off < 9 /\ 2 * off > -9
           /\ Cardinality(unlocked) = 3 => s.completion = 33

\* achievements returned with exactly 3 rows unlocked and completion 33
ThreeUnlockedReturned ==
    /\ AchievementsReturned
    /\ Cardinality({i \in 1..9 : response.achievements[i].unlocked}) = 3
    /\ response.stats.completion = 33

\* C12: POST /api/moods with a mood_value outside 1..5 (0 or 6) answers 422
\* and stores nothing, so every stored mood entry has mood_value in 1..5.
MoodValueValidated ==
    /\ [](\A e \in DOMAIN mood_entries : e.mood_value \in 1..5)
    /\ [][\A u \in Users, ts \in WindowTimestamps,
             m \in {x \in PlainMoodInputs : x.mood_value \notin 1..5} :
            CreateMoodEntry(u, ts, m)
                => /\ response'.op = "create_mood_entry"
                   /\ response'.code = 422
                   /\ mood_entries' = mood_entries]_vars

\* a mood entry with mood_value 0 or 6 was refused
MoodEntryRefused ==
    /\ response.op = "create_mood_entry"
    /\ response.code = 422

(***************************************************************************)
(* Predictions: claims.                                                    *)
(***************************************************************************)

PredictionReturned == response.op = "generate_prediction"

\* the user's stored entries that are at most 14 days old
RecentCount(u) ==
    NumberOfEntries({e \in EntriesOf(u) :
                        HoursOf(Now) - HoursOf(e.timestamp) <= 24 * 14})

\* C13: generate_prediction for a caller with fewer than 3 mood entries in
\* the last 14 days answers 400, calls the language model not at all and
\* stores no prediction; with 3 or more it calls the model.
PredictionNeedsThreeEntries ==
    [][\A u \in Users, o \in LlmOutcomes :
          GeneratePrediction(u, o) =>
              IF RecentCount(u) < 3
              THEN /\ response'.code = 400
                   /\ llm_calls' = llm_calls
                   /\ predictions' = predictions
              ELSE llm_calls' = llm_calls + 1]_vars

\* a caller with exactly 2 recent entries is refused after the model was
\* called for the other user, who has exactly 3
TwoRefusedThreeProceeded ==
    /\ PredictionReturned
    /\ response.code = 400
    /\ RecentCount(response.user_id) = 2
    /\ writes = 0
    /\ llm_calls = 1
    /\ \E u \in Users : RecentCount(u) = 3

\* C14: a reply of the language model that is not JSON, not an object or
\* lacks one of predicted_mood, confidence, reasoning, coping_strategies is
\* replaced by the fixed fallback: the request succeeds and stores exactly
\* one active prediction with the fallback's values.
UnusableReplyDefaulted ==
    [][\A u \in Users, o \in LlmOutcomes :
          (/\ GeneratePrediction(u, o)
           /\ RecentCount(u) >= 3
           /\ ~o.raised
           /\ ~(/\ o.reply.valid_json
                /\ o.reply.is_object
                /\ ResultFields \subseteq o.reply.fields))
              => /\ response'.code = 200
                 /\ predictions' =
                       Append(predictions,
                              [user_id |-> u, predicted_mood |-> 35,
                               confidence |-> 7, well_typed |-> TRUE,
                               is_active |-> TRUE])]_vars

\* C15: when the call to the language model fails, generate_prediction
\* answers 500, stores no prediction (no fallback) and has called the model
\* exactly once.
FailedCallSurfaces ==
    [][\A u \in Users, o \in LlmOutcomes :
          (GeneratePrediction(u, o) /\ RecentCount(u) >= 3 /\ o.raised)
              => /\ response'.code = 500
                 /\ predictions' = predictions
                 /\ llm_calls' = llm_calls + 1]_vars

\* a request whose model call failed has returned
FailedCallReturned ==
    /\ PredictionReturned
    /\ response.code = 500
    /\ response.detail = "model call failed"
    /\ llm_calls = 1
    /\ predictions = <<>>

\* C16: update_worry or delete_worry by a user on a stored worry of another
\* user answers 404 and leaves db.worries as it was.
ForeignWorryUntouched ==
    [][\A u \in Users, w \in WorryIdInputs \cap DOMAIN worries,
          d \in WorryUpdateInputs :
          (/\ worries[w] # None
           /\ worries[w].user_id # u
           /\ (UpdateWorry(u, w, d) \/ DeleteWorry(u, w)))
              => /\ response'.code = 404
                 /\ worries' = worries]_vars

\* an update or delete aimed at a stored worry of another user has returned
ForeignWorryRefused ==
    /\ response.op \in {"update_worry", "delete_worry"}
    /\ response.code = 404
    /\ response.worry_id \in DOMAIN worries
    /\ worries[response.worry_id] # None
    /\ worries[response.worry_id].user_id # response.user_id

\* C17: user emails are unique: register with an email a stored user holds
\* answers 400 and creates no user, and whatever the order or interleaving
\* of register requests, no two stored users share an email.
EmailsUnique ==
    /\ [](\A i, j \in DOMAIN user_docs :
              user_docs[i].email = user_docs[j].email => i = j)
    /\ [][\A email \in EmailInputs :
              (/\ RegisterFind(email)
               /\ \E i \in DOMAIN user_docs : user_docs[i].email = email)
                  => /\ requests'[Len(requests')].code = 400
                     /\ user_docs' = user_docs]_vars

\* C18: a protected route called with no token, with a token that is
\* malformed, wrongly signed or expired, or with one naming no stored user
\* answers 401 and changes nothing that is stored.
BadTokenRefused ==
    [][\A token \in TokenInputs :
          (/\ ProtectedCall(token)
           /\ \/ token.form # "jwt"
              \/ token.key # "JWT_SECRET"
              \/ token.exp < HoursOf(Now)
              \/ \A i \in DOMAIN user_docs : user_docs[i].id # token.user_id)
              => /\ response'.code = 401
                 /\ UNCHANGED <<users, payment_transactions, stripe,
                                mood_entries, worries, predictions,
                                user_docs>>]_vars

\* C19: create_subscription_checkout with a package id outside the catalog
\* answers 400 and stores no transaction; otherwise the transaction it
\* stores is pending / initiated, belongs to the caller and carries the
\* catalog's amount and currency of the package (monthly 2.99 usd, yearly
\* 29.99 usd), not the amount the client sent.
CheckoutStoresCatalogPrice ==
    [][\A u \in Users, request \in PackageInputs :
          CreateSubscriptionCheckout(u, request) =>
              IF request.package_id \notin {"monthly", "yearly"}
              THEN /\ response'.code = 400
                   /\ payment_transactions' = payment_transactions
              ELSE \E s \in SessionIds :
                      /\ payment_transactions[s] = None
                      /\ payment_transactions' =
                            [payment_transactions EXCEPT ![s] =
                                [user_id |-> u,
                                 session_id |-> s,
                                 package_id |-> request.package_id,
                                 amount |-> IF request.package_id = "monthly"
                                            THEN 299 ELSE 2999,
                                 currency |-> "usd",
                                 payment_status |-> "pending",
                                 status |-> "initiated",
                                 processed |-> FALSE]]]_vars

\* a checkout outside the catalog was refused after an earlier one stored
\* its transaction, still pending
CheckoutStoredThenRefused ==
    /\ response.op = "create_subscription_checkout"
    /\ response.code = 400
    /\ \E s \in SessionIds :
          /\ payment_transactions[s] # None
          /\ payment_transactions[s].payment_status = "pending"
          /\ payment_transactions[s].status = "initiated"

\* C20: get_subscription_status for a session id with no transaction of the
\* caller (no such session, or a session of another user) answers 404 and
\* changes no user and no transaction.
UnownedSessionNotFound ==
    [][\A u \in Users, s \in SessionIds :
          (/\ PollFind(u, s)
           /\ \/ payment_transactions[s] = None
              \/ payment_transactions[s].user_id # u)
              => /\ requests'[Len(requests')].pc = "done"
                 /\ requests'[Len(requests')].code = 404
                 /\ users' = users
                 /\ payment_transactions' = payment_transactions]_vars

(***************************************************************************)
(* Worries: claims.                                                        *)
(***************************************************************************)

\* the stored worries (deleted ones left out)
StoredWorryIds == {w \in DOMAIN worries : worries[w] # None}

\* C21: after any sequence of create_worry and update_worry calls, every
\* stored worry has an intensity in 1..10 and a category among take_action,
\* let_go, scheduled, resolved.
WorryFieldsInRange ==
    \A w \in StoredWorryIds :
        /\ worries[w].intensity \in 1..10
        /\ worries[w].category
               \in {"take_action", "let_go", "scheduled", "resolved"}

\* C22: a worry is created with category take_action and no resolved_at,
\* and the resolved_at of a stored worry changes only in an update_worry of
\* that worry whose body sets category to resolved.
ResolvedAtOnlyByResolving ==
    [][/\ Len(worries') > Len(worries) =>
              /\ worries'[Len(worries')].category = "take_action"
              /\ worries'[Len(worries')].resolved_at = "null"
       /\ \A w \in StoredWorryIds :
              (/\ worries'[w] # None
               /\ worries'[w].resolved_at # worries[w].resolved_at)
                  => \E u \in Users, d \in WorryUpdateBodies :
                        /\ UpdateWorry(u, w, d)
                        /\ "category" \in DOMAIN d
                        /\ d.category = "resolved"]_vars

\* the owner's update to resolved has stamped a worry that had no resolved_at
WorryResolvedReturned ==
    /\ response.op = "update_worry"
    /\ response.code = 200
    /\ worries[response.worry_id].category = "resolved"
    /\ worries[response.worry_id].resolved_at = "set"
    /\ worries \notin WorryStores

\* C24: update_worry answers 404 exactly when no stored worry with that id
\* belongs to the caller; an update of an owned worry is never a 404, also
\* when the body holds the values already stored.
NotFoundOnlyWhenNotOwned ==
    [][\A u \in Users, w \in WorryIdInputs, d \in WorryUpdateBodies :
          UpdateWorry(u, w, d) =>
              (response'.code = 404
                  <=> ~(/\ w \in StoredWorryIds
                        /\ worries[w].user_id = u))]_vars

\* C30: a stored worry has a resolved_at only if its category is resolved,
\* also after a resolved worry was given another category.
ResolvedAtImpliesResolved ==
    \A w \in StoredWorryIds :
        worries[w].resolved_at # "null" => worries[w].category = "resolved"

(***************************************************************************)
(* Mood statistics: claims.                                                *)
(***************************************************************************)

MoodStatsReturned == response.op = "get_mood_stats"

\* C23: get_mood_stats always answers; with nothing of the caller in the
\* window the aggregate is zero and empty, otherwise total_entries is the
\* number of matching entries, the mood_distribution counts add up to it
\* and average_mood is the sum of the mood values over it, within 1..5.
MoodStatsSummariseWindow ==
    MoodStatsReturned =>
        LET matching == Matching(response.user_id, response.days)
            n == Total(matching, DOMAIN matching)
        IN /\ response.code = 200
           /\ IF n = 0
              THEN /\ response.average_mood = Quotient(0, 1)
                   /\ response.total_entries = 0
                   /\ DOMAIN response.mood_distribution = {}
                   /\ DOMAIN response.average_factors = {}
              ELSE /\ response.total_entries = n
                   /\ Total(response.mood_distribution,
                            DOMAIN response.mood_distribution)
                          = response.total_entries
                   /\ response.average_mood =
                          Quotient(Total([e \in DOMAIN matching |->
                                             matching[e] * e.mood_value],
                                         DOMAIN matching),
                                   n)
                   /\ response.average_mood.num >= response.average_mood.den
                   /\ response.average_mood.num
                          <= 5 * response.average_mood.den

(***************************************************************************)
(* Achievements: further claims.                                           *)
(***************************************************************************)

\* C25: the current_streak computed by get_achievements is 0, 1 or 2 for
\* every history: it is assigned only in the first round of the loop.
CurrentStreakAtMostTwo ==
    AchievementsReturned => response.current_streak \in {0, 1, 2}

\* an entry on every day of a week or more, reported with current_streak 2
WholeWeekReturned ==
    /\ AchievementsReturned
    /\ response.dates = Days
    /\ Cardinality(response.dates) >= 7
    /\ response.longest_streak = Cardinality(response.dates)
    /\ response.current_streak = 2

\* C28: in every get_achievements response every achievement has
\* 0 <= progress <= requirement and is unlocked exactly when its progress
\* equals its requirement.
ProgressWithinRequirement ==
    AchievementsReturned =>
        \A i \in DOMAIN response.achievements :
            LET a == response.achievements[i]
            IN /\ 0 <= a.progress
               /\ a.progress <= a.requirement
               /\ a.unlocked <=> a.progress = a.requirement

\* more mood entries than achievement 4 requires, reported capped, next to
\* an achievement still in progress
ProgressCappedReturned ==
    /\ AchievementsReturned
    /\ MoodCount(response.user_id) > response.achievements[4].requirement
    /\ response.achievements[4].progress = response.achievements[4].requirement
    /\ response.achievements[4].unlocked
    /\ response.achievements[7].progress > 0
    /\ ~response.achievements[7].unlocked

\* the row of achievement i that get_achievements reports to u in this state
ReportedRow(u, i) ==
    Achievements(u, ComputeStreak(FindMoodEntries(mood_entries, u)))[i]

\* streaks get_achievements can compute: none, a single day, a longer run
StreakValues ==
    {[current_streak |-> 0, longest_streak |-> 0],
     [current_streak |-> 1, longest_streak |-> 1],
     [current_streak |-> 2, longest_streak |-> MaxDay + 1]}

\* C29: achievements 1, 4 and 5 are never locked again: once
\* get_achievements reports one of them unlocked for a user, it reports it
\* unlocked after every later operation, whatever the streaks are by then.
CountAchievementsStayUnlocked ==
    [][\A u \in Users, i \in {1, 4, 5} :
          ReportedRow(u, i).unlocked =>
              \A streak \in StreakValues :
                  Achievements(u, streak)[i].unlocked']_vars

\* achievements 1, 4 and 5 reported unlocked after a further entry was stored
StillUnlockedAfterEntry ==
    /\ AchievementsReturned
    /\ writes >= 1
    /\ MoodCount(response.user_id) > response.achievements[4].requirement
    /\ \A i \in {1, 4, 5} : response.achievements[i].unlocked

(***************************************************************************)
(* Payments: further claims.                                               *)
(***************************************************************************)

\* C26: once a transaction's payment_status is paid it stays paid: no later
\* or concurrent poll or webhook writes another value, whatever the provider
\* answered to a poll still in flight.
PaidStaysPaid ==
    [][\A s \in SessionIds :
          (/\ payment_transactions[s] # None
           /\ payment_transactions[s].payment_status = "paid")
              => payment_transactions'[s].payment_status = "paid"]_vars

\* C27: a user has subscription_status active only if the provider holds as
\* paid a session whose transaction belongs to that user, and the user's
\* subscription_package is the package_id of such a transaction; profile
\* updates, checkout creation and polls by other users set neither field.
ActiveOnlyWhenPaid ==
    \A u \in Users :
        IF users[u].subscription_status = "active"
        THEN \E s \in SessionIds :
                 /\ payment_transactions[s] # None
                 /\ payment_transactions[s].user_id = u
                 /\ stripe[s].payment_status = "paid"
                 /\ users[u].subscription_package
                        = payment_transactions[s].package_id
        ELSE /\ users[u].subscription_status = "none"
             /\ users[u].subscription_package = "none"

\* one user activated by their paid session while the other, who polled
\* that session and then sent a profile update, is not
ActivatedNextToRefusedUser ==
    /\ response.op = "update_profile"
    /\ \E u \in Users :
           /\ users[u].subscription_status = "active"
           /\ \E v \in Users \ {u} :
                  /\ users[v].subscription_status = "none"
                  /\ \E r \in DOMAIN requests :
                         /\ requests[r].kind = "poll"
                         /\ requests[r].user_id = v
                         /\ requests[r].code = 500

=============================================================================
